---- MODULE Spec2Model ----
(***************************************************************************)
(* Model of the Mixer class of spotify_mixer.py: a round-robin scheduler   *)
(* over N ordered sources of track references, with a dedup set, a recent- *)
(* artist history and a cap on the number of tracks.                       *)
(*                                                                         *)
(* A call of Mixer.next_track is modelled at the granularity of one        *)
(* iteration of its while loop, because several properties are about       *)
(* single attempts and about the termination of one call.  The caller is   *)
(* any client that calls next_track again after the previous call returned.*)
(* The first calls are those of mix_tracks, which collects the returned    *)
(* track ids until its loop breaks; the calls after that are those of a    *)
(* client that keeps calling the same Mixer.                               *)
(***************************************************************************)
EXTENDS Integers, Sequences, FiniteSets, TLC

(* ---------------------------- bounds ----------------------------------- *)
MaxSources == 2          \* N ranges over 0..MaxSources
MaxTotal == 3            \* total number of track references over all sources
MaxTrackId == 3          \* track ids are 1..MaxTrackId
MaxArtistId == 3         \* artist ids are 1..MaxArtistId
MaxSep == 2              \* min_artist_separation ranges over 0..MaxSep
MaxMaxTracks == 3        \* max_tracks ranges over 0..MaxMaxTracks

(* ---------------------------- values ----------------------------------- *)
TrackIds == 1..MaxTrackId
ArtistIds == 1..MaxArtistId
\* a track reference: the dict {"track_id": .., "artist_id": ..}
Tracks == [track_id : TrackIds, artist_id : ArtistIds]
\* Python's None as returned by next_track / get_next_candidate
None == 0
\* value of "result" before any call of next_track has returned
NoCall == -1
\* Python's None as returned by get_next_candidate (no track reference)
NoCandidate == [track_id |-> None, artist_id |-> None]

\* the tracks and the configuration of scenario 1 of the specification
A1 == [track_id |-> 1, artist_id |-> 1]
A2 == [track_id |-> 2, artist_id |-> 1]
B1 == [track_id |-> 3, artist_id |-> 2]
Scenario1 ==
    [source_list |-> << <<A1, A2>>, <<B1>> >>,
     dedup |-> TRUE,
     min_artist_separation |-> 4,
     max_tracks |-> 10]

Track(t, a) == [track_id |-> t, artist_id |-> a]

Min(a, b) == IF a < b THEN a ELSE b

\* the largest track id / artist id occurring in a sequence of tracks, or 0
MaxIdIn(s) ==
    IF Len(s) = 0 THEN 0
    ELSE CHOOSE m \in TrackIds :
             /\ \E p \in 1..Len(s) : s[p].track_id = m
             /\ \A p \in 1..Len(s) : s[p].track_id <= m
MaxArtistIn(s) ==
    IF Len(s) = 0 THEN 0
    ELSE CHOOSE m \in ArtistIds :
             /\ \E p \in 1..Len(s) : s[p].artist_id = m
             /\ \A p \in 1..Len(s) : s[p].artist_id <= m

\* The code compares track ids and artist ids only for equality, so a run is
\* determined up to a renaming of the ids.  The inputs are therefore drawn
\* with ids numbered in order of first occurrence (reading the sources one
\* after the other): sequences of t tracks in that form.
RECURSIVE FlatTracks(_)
FlatTracks(t) ==
    IF t = 0 THEN {<< >>}
    ELSE UNION {{Append(s, Track(i, a)) :
                    i \in 1..Min(MaxTrackId, MaxIdIn(s) + 1),
                    a \in 1..Min(MaxArtistId, MaxArtistIn(s) + 1)}
                   : s \in FlatTracks(t - 1)}

\* the ways to give n sources lengths that sum to t
RECURSIVE Lengths(_, _)
Lengths(n, t) ==
    IF n = 0 THEN (IF t = 0 THEN {<< >>} ELSE {})
    ELSE UNION {{<<k>> \o rest : rest \in Lengths(n - 1, t - k)} : k \in 0..t}

RECURSIVE SumUpTo(_, _)
SumUpTo(lens, i) == IF i = 0 THEN 0 ELSE lens[i] + SumUpTo(lens, i - 1)

\* the source list made of consecutive pieces of flat with the given lengths
Split(flat, lens) ==
    [i \in 1..Len(lens) |->
        SubSeq(flat, SumUpTo(lens, i - 1) + 1, SumUpTo(lens, i))]

\* all lists of at most MaxSources sources holding at most MaxTotal tracks
SourceLists ==
    UNION {UNION {{Split(flat, lens) : flat \in FlatTracks(t), lens \in Lengths(n, t)}
                     : t \in 0..MaxTotal}
              : n \in 0..MaxSources}

VARIABLES
    source_list,            \* self.source_list
    dedup,                  \* self.dedup
    min_artist_separation,  \* self.min_artist_separation
    fail_fast,              \* self.fail_fast
    max_tracks,             \* self.max_tracks
    track_history,          \* self.track_history (a set of track ids)
    artist_history,         \* self.artist_history (a list of artist ids)
    cur_channel,            \* self.cur_channel, 0-based as in the code
    prepped,                \* self.prepped
    source_positions,       \* self.source_positions, 0-based positions
    pc,                     \* "idle": no call active; "loop": at the while test
    consecutive_fails,      \* the local of next_track
    result,                 \* return value of the last call that returned
    attempts,               \* calls of get_next_candidate made by the current/last call
    emitted,                \* the track references returned so far, in order
    calls,                  \* number of calls of next_track that have returned
    entry_channel,          \* self.cur_channel at the entry of the current/last call
    emitted_from,           \* for each emission, <<channel, position>> it was read at
    mixed_tracks,           \* the local mixed_tracks of mix_tracks
    mix_done                \* mix_tracks has left its loop: mixed_tracks is its result

config == <<source_list, dedup, min_artist_separation, fail_fast, max_tracks>>
mixer == <<track_history, artist_history, cur_channel, prepped, source_positions>>
vars == <<source_list, dedup, min_artist_separation, fail_fast, max_tracks,
          track_history, artist_history, cur_channel, prepped, source_positions,
          pc, consecutive_fails, result, attempts, emitted, calls,
          entry_channel, emitted_from, mixed_tracks, mix_done>>

N == Len(source_list)

\* consecutive_fails and attempts are unbounded Python ints; the code only
\* compares consecutive_fails with N, so the model folds the counts above
\* CounterCap (which is above every N) onto two alternating values: the
\* comparisons keep their outcome and every iteration stays a visible step.
CounterCap == MaxSources + 2
Bump(n) ==
    IF n < CounterCap THEN n + 1
    ELSE IF n = CounterCap THEN CounterCap + 1
    ELSE CounterCap

\* the count of returned calls saturates once every track reference can
\* have been consumed and exhaustion has been observed repeatedly
CallCap == MaxTotal + 3
Returned(n) == IF n < CallCap THEN n + 1 ELSE n

(* ------------------------- Mixer.__init__ ------------------------------ *)
MixerInit(sl, dd, sep, ff, mt) ==
    /\ source_list = sl
    /\ dedup = dd
    /\ min_artist_separation = sep
    /\ fail_fast = ff
    /\ max_tracks = mt
    /\ track_history = {}
    /\ artist_history = << >>
    /\ cur_channel = 0
    /\ prepped = FALSE
    /\ source_positions = [i \in 1..Len(sl) |-> 0]
    /\ pc = "idle"
    /\ consecutive_fails = 0
    /\ result = NoCall
    /\ attempts = 0
    /\ emitted = << >>
    /\ calls = 0
    /\ entry_channel = 0
    /\ emitted_from = << >>
    /\ mixed_tracks = << >>
    /\ mix_done = FALSE

Init ==
    \/ \E sl \in SourceLists, dd \in BOOLEAN, ff \in BOOLEAN,
          sep \in 0..MaxSep, mt \in 0..MaxMaxTracks :
          MixerInit(sl, dd, sep, ff, mt)
    \/ \E ff \in BOOLEAN :
          MixerInit(Scenario1.source_list, Scenario1.dedup,
                    Scenario1.min_artist_separation, ff, Scenario1.max_tracks)

(* ------------------------- helpers of Mixer ---------------------------- *)
\* Python's s[start:] for a list s and an int start
PySliceFrom(s, start) ==
    LET n == Len(s)
        first == IF start < 0
                 THEN (IF n + start < 0 THEN 0 ELSE n + start)
                 ELSE (IF start > n THEN n ELSE start)
    IN  SubSeq(s, first + 1, n)

\* get_next_candidate counting the position from the end of the source
get_next_candidate_from_end ==
    LET source == source_list[cur_channel + 1]
        position == source_positions[cur_channel + 1]
    IN  IF position >= Len(source) THEN NoCandidate
        ELSE source[Len(source) - position]

\* Mixer.get_next_candidate: None, or the track at the cursor of cur_channel
get_next_candidate ==
    LET source == source_list[cur_channel + 1]
        position == source_positions[cur_channel + 1]
    IN  IF position >= Len(source) THEN NoCandidate ELSE source[position + 1]

\* get_next_candidate advancing the cursor by two
AdvancedPositions_skip ==
    [source_positions EXCEPT ![cur_channel + 1] = @ + 2]

\* get_next_candidate advancing the cursor of every source
AdvancedPositions_all ==
    [i \in 1..Len(source_positions) |->
        IF source_positions[i] < Len(source_list[i])
        THEN source_positions[i] + 1 ELSE source_positions[i]]

\* get_next_candidate forgetting to advance the cursor
AdvancedPositions_stay == source_positions

\* source_positions after get_next_candidate returned a track
AdvancedPositions ==
    [source_positions EXCEPT ![cur_channel + 1] = @ + 1]

\* good_candidate without the dedup test
good_candidate_no_dedup(track) ==
    ~(\E i \in 1..Len(artist_history) : artist_history[i] = track.artist_id)

\* good_candidate without the artist test
good_candidate_no_artist(track) ==
    ~(dedup /\ track.track_id \in track_history)

\* good_candidate testing track_history whatever dedup says
good_candidate_always_dedup(track) ==
    /\ track.track_id \notin track_history
    /\ ~(\E i \in 1..Len(artist_history) : artist_history[i] = track.artist_id)

\* good_candidate looking at the most recent artist only
good_candidate_last_only(track) ==
    /\ ~(dedup /\ track.track_id \in track_history)
    /\ ~(Len(artist_history) > 0
          /\ artist_history[Len(artist_history)] = track.artist_id)

\* Mixer.good_candidate
good_candidate(track) ==
    IF dedup /\ track.track_id \in track_history THEN FALSE
    ELSE IF \E i \in 1..Len(artist_history) : artist_history[i] = track.artist_id
         THEN FALSE
         ELSE TRUE

\* add_to_history forgetting to record the track id
add_to_track_history_forget(track) == track_history

\* Mixer.add_to_history: the new track_history
add_to_track_history(track) == track_history \cup {track.track_id}

\* add_to_history keeping the oldest entries instead of the newest
add_to_artist_history_keep_first(track) ==
    LET appended == Append(artist_history, track.artist_id)
    IN  IF Len(appended) > min_artist_separation
        THEN SubSeq(appended, 1, min_artist_separation)
        ELSE appended

\* Mixer.add_to_history: the new artist_history
add_to_artist_history(track) ==
    LET appended == Append(artist_history, track.artist_id)
    IN  IF Len(appended) > min_artist_separation
        THEN PySliceFrom(appended, 0 - min_artist_separation)
        ELSE appended

\* next_channel wrapping one channel too early
next_channel_early_wrap ==
    IF cur_channel + 1 >= N - 1 THEN 0 ELSE cur_channel + 1

\* next_channel wrapping one channel too late
next_channel_late_wrap ==
    IF cur_channel + 1 > N THEN 0 ELSE cur_channel + 1

\* next_channel forgetting to advance
next_channel_stay == cur_channel

\* Mixer.next_channel: the new cur_channel
next_channel ==
    IF cur_channel + 1 >= N THEN 0 ELSE cur_channel + 1

\* the while condition with <= in place of <
LoopCond_off_by_one == N > 0 /\ Cardinality(track_history) <= max_tracks

\* the while condition of next_track
LoopCond == N > 0 /\ Cardinality(track_history) < max_tracks

\* the fail_fast test with > in place of >=
FailFastCond_strict == fail_fast /\ consecutive_fails > N

\* the fail_fast test giving up one failure too early
FailFastCond_early == fail_fast /\ consecutive_fails >= N - 1

\* the fail_fast test at the top of the loop body
FailFastCond == fail_fast /\ consecutive_fails >= N

(* ------------------------- mix_tracks ---------------------------------- *)
\* the second break test of mix_tracks with > in place of >=
mix_tracks_break_late(tracks) == Len(tracks) > max_tracks

\* the second break test of mix_tracks, on the list after the append
mix_tracks_break(tracks) == Len(tracks) >= max_tracks

\* the rest of the loop body of mix_tracks once next_track returned
\* track_id; after the loop was left the caller is another client
mix_tracks_step(track_id) ==
    IF mix_done THEN UNCHANGED <<mixed_tracks, mix_done>>
    ELSE IF track_id = None
         THEN /\ mix_done' = TRUE
              /\ mixed_tracks' = mixed_tracks
         ELSE /\ mixed_tracks' = Append(mixed_tracks, track_id)
              /\ mix_done' = mix_tracks_break(Append(mixed_tracks, track_id))

(* ------------------------- Mixer.next_track ---------------------------- *)
\* entry of next_track: prep() and consecutive_fails = 0
NextTrackCall ==
    /\ pc = "idle"
    /\ pc' = "loop"
    /\ prepped' = TRUE
    /\ consecutive_fails' = 0
    /\ attempts' = 0
    /\ entry_channel' = cur_channel
    /\ UNCHANGED <<config, track_history, artist_history, cur_channel,
                   source_positions, result, emitted, calls,
                   emitted_from, mixed_tracks, mix_done>>

\* the while condition is false: fall through to the final "return None"
LoopExit ==
    /\ pc = "loop"
    /\ ~LoopCond
    /\ pc' = "idle"
    /\ result' = None
    /\ calls' = Returned(calls)
    /\ mix_tracks_step(None)
    /\ UNCHANGED <<config, mixer, consecutive_fails, attempts, emitted,
                   entry_channel, emitted_from>>

\* fail_fast and a full round of failures: "return None" inside the loop
FailFastReturn ==
    /\ pc = "loop"
    /\ LoopCond
    /\ FailFastCond
    /\ pc' = "idle"
    /\ result' = None
    /\ calls' = Returned(calls)
    /\ mix_tracks_step(None)
    /\ UNCHANGED <<config, mixer, consecutive_fails, attempts, emitted,
                   entry_channel, emitted_from>>

\* get_next_candidate returned None: the current source is used up
ExhaustedChannel ==
    /\ pc = "loop"
    /\ LoopCond
    /\ ~FailFastCond
    /\ get_next_candidate = NoCandidate
    /\ consecutive_fails' = Bump(consecutive_fails)
    /\ attempts' = Bump(attempts)
    /\ cur_channel' = next_channel
    /\ UNCHANGED <<config, track_history, artist_history, prepped,
                   source_positions, pc, result, emitted, calls,
                   entry_channel, emitted_from, mixed_tracks, mix_done>>

\* a candidate was fetched and good_candidate accepted it
Accept ==
    /\ pc = "loop"
    /\ LoopCond
    /\ ~FailFastCond
    /\ get_next_candidate # NoCandidate
    /\ LET candidate_track == get_next_candidate IN
        /\ good_candidate(candidate_track)
        /\ source_positions' = AdvancedPositions
        /\ track_history' = add_to_track_history(candidate_track)
        /\ artist_history' = add_to_artist_history(candidate_track)
        /\ cur_channel' = next_channel
        /\ result' = candidate_track.track_id
        /\ emitted' = Append(emitted, candidate_track)
        /\ emitted_from' = Append(emitted_from,
               <<cur_channel, source_positions[cur_channel + 1]>>)
        /\ mix_tracks_step(candidate_track.track_id)
    /\ attempts' = Bump(attempts)
    /\ pc' = "idle"
    /\ calls' = Returned(calls)
    /\ UNCHANGED <<config, prepped, consecutive_fails, entry_channel>>

\* a candidate was fetched and good_candidate rejected it
Reject ==
    /\ pc = "loop"
    /\ LoopCond
    /\ ~FailFastCond
    /\ get_next_candidate # NoCandidate
    /\ ~good_candidate(get_next_candidate)
    /\ source_positions' = AdvancedPositions
    /\ consecutive_fails' = Bump(consecutive_fails)
    /\ attempts' = Bump(attempts)
    /\ cur_channel' = next_channel
    /\ UNCHANGED <<config, track_history, artist_history, prepped,
                   pc, result, emitted, calls, entry_channel,
                   emitted_from, mixed_tracks, mix_done>>

Next ==
    \/ NextTrackCall
    \/ LoopExit
    \/ FailFastReturn
    \/ ExhaustedChannel
    \/ Accept
    \/ Reject

Spec == Init /\ [][Next]_vars

\* a call that has started keeps executing until it returns; the caller
\* is free to stop calling
FairSpec == Spec /\ WF_vars(pc = "loop" /\ Next)

TypeOK ==
    /\ pc \in {"idle", "loop"}
    /\ cur_channel \in 0..MaxSources
    /\ result \in {NoCall, None} \cup TrackIds
    /\ consecutive_fails \in 0..(CounterCap + 1)
    /\ attempts \in 0..(CounterCap + 1)
    /\ calls \in 0..CallCap
    /\ mix_done \in BOOLEAN
    /\ Len(emitted_from) = Len(emitted)

(* ======================= properties ==================================== *)
\* every source cursor is at the end of its source
AllSpent == \A i \in 1..N : source_positions[i] >= Len(source_list[i])

\* the step is one attempt of next_track that rejected a fetched candidate
RejectStep ==
    /\ pc = "loop"
    /\ pc' = "loop"
    /\ source_positions' # source_positions

\* C1: over any sequence of next_track calls the number of calls that
\* returned a track_id never exceeds max_tracks, for every configuration.
CapProperty == Len(emitted) <= max_tracks

\* C2: with fail_fast = false every call of next_track terminates: a call
\* that is executing its loop eventually returns.
NoFailFastTerminates == (pc = "loop" /\ ~fail_fast) ~> (pc = "idle")

\* C3: exhaustion is terminal: once a call returned the exhausted signal,
\* the next call that returns also returns the exhausted signal.
ExhaustionTerminal == [][result = None => result' = None]_vars

\* C3 (amended): once a call returned the exhausted signal while N = 0,
\* len(track_history) >= max_tracks or every source cursor is at its end,
\* no later call returns a track_id.
SpentExhaustionTerminal ==
    [][(/\ result = None
        /\ \/ N = 0
           \/ Cardinality(track_history) >= max_tracks
           \/ AllSpent) => result' = None]_vars

\* a second exhausted return after an exhausted return with all sources spent
SpentExhaustionWitness ==
    /\ pc = "idle"
    /\ result = None
    /\ N > 0
    /\ AllSpent
    /\ Len(emitted) > 0
    /\ calls < CallCap
    /\ calls - Len(emitted) >= 2

\* C4: with min_artist_separation = 0 the recent-artist history is never
\* populated (so no candidate is rejected because of its artist).
SepZeroNeverPopulated ==
    min_artist_separation = 0 => artist_history = << >>

\* C5: with dedup = true all returned track_ids are pairwise distinct.
DedupProperty ==
    dedup => \A i, j \in 1..Len(emitted) :
                 i # j => emitted[i].track_id # emitted[j].track_id

\* a track_id repeated inside one source was fetched again and rejected by
\* the dedup test alone (its artist is outside the window)
DedupWitness ==
    /\ dedup
    /\ min_artist_separation = 1
    /\ source_list = << <<Track(1, 1), Track(2, 2), Track(1, 1)>> >>
    /\ source_positions = <<3>>
    /\ emitted = <<Track(1, 1), Track(2, 2)>>

\* C6: for min_artist_separation = k > 0 no artist_id occurs twice within
\* any window of k+1 consecutive emissions.
SeparationProperty ==
    min_artist_separation > 0 =>
        \A i, j \in 1..Len(emitted) :
            (i < j /\ j - i <= min_artist_separation)
                => emitted[i].artist_id # emitted[j].artist_id

\* an artist was emitted again after ageing out of a window of size 1
SeparationWitness ==
    /\ min_artist_separation = 1
    /\ Len(emitted) = 3
    /\ emitted[1].artist_id = emitted[3].artist_id
    /\ emitted[1].artist_id # emitted[2].artist_id

\* the Mixer was constructed with the arguments of scenario 1 and the
\* default fail_fast = True
IsScenario1 ==
    /\ source_list = Scenario1.source_list
    /\ min_artist_separation = Scenario1.min_artist_separation
    /\ dedup = Scenario1.dedup
    /\ fail_fast
    /\ max_tracks = Scenario1.max_tracks

\* C7: in scenario 1 the calls return exactly A1, B1, A2 and then the
\* exhausted signal.
Scenario1Claimed ==
    (IsScenario1 /\ result = None) => emitted = <<A1, B1, A2>>

\* C7 (amended): in scenario 1 the calls return exactly A1, B1 and then the
\* exhausted signal on every later call; A2 is fetched and rejected.
Scenario1Actual ==
    (IsScenario1 /\ pc = "idle") =>
        /\ calls = 0 => result = NoCall
        /\ calls = 1 => (result = A1.track_id /\ emitted = <<A1>>)
        /\ calls = 2 => (result = B1.track_id /\ emitted = <<A1, B1>>)
        /\ calls >= 3 => (result = None /\ emitted = <<A1, B1>>
                            /\ source_positions = <<2, 1>>)

\* scenario 1 after four calls
Scenario1Witness ==
    /\ IsScenario1
    /\ pc = "idle"
    /\ calls = 4
    /\ result = None

\* C8: with fail_fast = true and N >= 1 a call makes at most N attempts and
\* returns the exhausted signal exactly when N consecutive attempts failed.
FailFastRoundClaimed ==
    (fail_fast /\ N >= 1) =>
        /\ attempts <= N
        /\ (pc = "idle" /\ calls > 0) =>
               (result = None <=> (consecutive_fails = N /\ attempts = N))

\* C8 (amended): with fail_fast = true and N >= 1 a call makes at most N
\* attempts; it returns the exhausted signal exactly when N consecutive
\* attempts failed or when len(track_history) had already reached
\* max_tracks at the start of the call, in which case it makes no attempt.
FailFastRoundActual ==
    (fail_fast /\ N >= 1) =>
        /\ attempts <= N
        /\ (pc = "idle" /\ calls > 0) =>
               /\ result # None => (consecutive_fails < N
                                      /\ attempts = consecutive_fails + 1)
               /\ result = None =>
                     \/ consecutive_fails = N /\ attempts = N
                            /\ Cardinality(track_history) < max_tracks
                     \/ attempts = 0
                            /\ Cardinality(track_history) >= max_tracks

\* a dead round over two spent sources below the cap
FailFastRoundWitness ==
    /\ fail_fast
    /\ N = 2
    /\ pc = "idle"
    /\ result = None
    /\ AllSpent
    /\ Len(emitted) > 0
    /\ Cardinality(track_history) < max_tracks
    /\ attempts = 2

\* C9: when N = 0, max_tracks = 0 or the emission count has reached
\* max_tracks, a call returns the exhausted signal and leaves the source
\* cursors, the current channel, the seen-track set and the recent-artist
\* history unchanged.
CappedCallIsNoOp ==
    [][(pc = "loop" /\ (N = 0 \/ max_tracks = 0 \/ Len(emitted) >= max_tracks))
          => /\ pc' = "idle"
             /\ result' = None
             /\ UNCHANGED <<source_positions, cur_channel, track_history,
                            artist_history>>]_vars

\* C10: with dedup = false a candidate is never rejected because of its
\* track_id (every rejection is due to the artist window), and two sources
\* <<X/a>>, <<X/b>> with a # b and max_tracks >= 2 yield X twice.
NoDedupEmitsTwice ==
    [][/\ (~dedup /\ RejectStep) =>
             \E i \in 1..Len(artist_history) :
                 artist_history[i] = get_next_candidate.artist_id
       /\ (/\ ~dedup
           /\ N = 2
           /\ Len(source_list[1]) = 1
           /\ Len(source_list[2]) = 1
           /\ source_list[1][1].track_id = source_list[2][1].track_id
           /\ source_list[1][1].artist_id # source_list[2][1].artist_id
           /\ max_tracks >= 2
           /\ pc' = "idle"
           /\ calls' >= 2)
          => emitted' = <<source_list[1][1], source_list[2][1]>>]_vars

\* the same track_id was returned by two calls
NoDedupWitness ==
    /\ ~dedup
    /\ N = 2
    /\ Len(emitted) = 2
    /\ emitted[1].track_id = emitted[2].track_id
    /\ emitted[1].artist_id # emitted[2].artist_id
    /\ source_positions = <<1, 1>>

\* the step is one attempt of next_track: one execution of the loop body
\* that calls get_next_candidate
AttemptStep ==
    /\ pc = "loop"
    /\ attempts' # attempts

\* T: the number of track references in all sources
RECURSIVE TotalUpTo(_)
TotalUpTo(i) == IF i = 0 THEN 0 ELSE Len(source_list[i]) + TotalUpTo(i - 1)
TotalTracks == TotalUpTo(N)

\* C11: every attempt (accepted, rejected or exhausted channel) advances
\* the current channel by exactly +1 mod N, and no other step changes it.
ChannelAdvancesByOne ==
    [][IF AttemptStep
       THEN cur_channel' = (cur_channel + 1) % N
       ELSE cur_channel' = cur_channel]_vars

\* a call that started on channel 1 failed there, wrapped to channel 0,
\* accepted its candidate and moved the channel on to 1
ChannelAdvancesWitness ==
    /\ N = 2
    /\ pc = "idle"
    /\ result # None
    /\ entry_channel = 1
    /\ attempts = 2
    /\ consecutive_fails = 1
    /\ cur_channel = 1

\* C12: with fail_fast = true every call terminates, and from the
\* (T+1)-th call onward every call returns the exhausted signal.
\* Termination is stated by its bound: every iteration of the loop either
\* returns or counts one more consecutive failure, of which there are at
\* most N, so a call runs at most N + 1 iterations.
FailFastTerminates ==
    [][fail_fast =>
          /\ pc = "loop" =>
                 \/ pc' = "idle"
                 \/ /\ consecutive_fails' = consecutive_fails + 1
                    /\ consecutive_fails' <= N
          /\ (pc' = "idle" /\ calls' >= TotalTracks + 1) => result' = None]_vars

\* the (T+1)-th call returned after all T = 3 references were emitted
FailFastTerminatesWitness ==
    /\ fail_fast
    /\ pc = "idle"
    /\ TotalTracks = 3
    /\ Len(emitted) = 3
    /\ calls = 4
    /\ result = None

\* C13: the recent-artist history never holds more than
\* min_artist_separation entries, for every min_artist_separation >= 0.
HistoryBounded == Len(artist_history) <= min_artist_separation

\* C14: every cursor starts at 0, never decreases and stays within
\* 0 .. len(source[i]).
CursorInRange ==
    /\ \A i \in 1..N : source_positions[i] = 0
    /\ [][\A i \in 1..N :
             /\ source_positions'[i] >= source_positions[i]
             /\ 0 <= source_positions'[i]
             /\ source_positions'[i] <= Len(source_list[i])]_vars

\* a source of three tracks was read to its end and then tried again
CursorWitness ==
    /\ N = 1
    /\ Len(source_list[1]) = 3
    /\ source_positions[1] = 3
    /\ pc = "loop"
    /\ attempts >= 1
    /\ consecutive_fails = attempts
    /\ calls >= 3

\* C15: with dedup = true the number of calls that returned a track_id
\* equals the size of track_history.
EmittedCountIsHistorySize ==
    dedup => Len(emitted) = Cardinality(track_history)

\* two tracks were emitted and a third reference, repeating the first
\* track id, was fetched from the other source and rejected
EmittedCountWitness ==
    /\ dedup
    /\ source_list = << <<Track(1, 1)>>, <<Track(2, 2), Track(1, 1)>> >>
    /\ source_positions = <<1, 2>>
    /\ Cardinality(track_history) = 2

\* C16: when N > 0 the current channel is in [0, N).
ChannelInRange ==
    N > 0 => (0 <= cur_channel /\ cur_channel < N)

\* a call went round both channels and wrapped back to channel 0
ChannelInRangeWitness ==
    /\ N = 2
    /\ pc = "idle"
    /\ entry_channel = 0
    /\ attempts = 2
    /\ cur_channel = 0

\* C17: an attempt on a non-exhausted channel c increases cursor[c] by
\* exactly 1, accepted or rejected, and leaves the other cursors alone; an
\* attempt on an exhausted channel, and every other step, changes no cursor.
ConsumptionOnAttempt ==
    [][IF AttemptStep
       THEN LET c == cur_channel + 1 IN
            IF source_positions[c] < Len(source_list[c])
            THEN source_positions' = [source_positions EXCEPT ![c] = @ + 1]
            ELSE source_positions' = source_positions
       ELSE source_positions' = source_positions]_vars

\* the second track of the only source was fetched and rejected
ConsumptionWitness ==
    /\ N = 1
    /\ pc = "loop"
    /\ Len(emitted) = 1
    /\ source_positions = <<2>>
    /\ attempts = 1
    /\ consecutive_fails = 1

\* the step is an attempt that fetched a candidate
FetchStep ==
    /\ AttemptStep
    /\ source_positions[cur_channel + 1] < Len(source_list[cur_channel + 1])

\* C18: for min_artist_separation = k >= 1 a fetched candidate is rejected
\* if and only if (dedup and its track_id was already emitted) or its
\* artist is the artist of one of the last min(k, emitted count) emissions.
RejectedIffSeenOrRecent ==
    [][(min_artist_separation >= 1 /\ FetchStep) =>
          LET candidate == source_list[cur_channel + 1]
                               [source_positions[cur_channel + 1] + 1]
              seen == \E i \in 1..Len(emitted) :
                          emitted[i].track_id = candidate.track_id
              recent == \E i \in 1..Len(emitted) :
                            /\ i > Len(emitted) - min_artist_separation
                            /\ emitted[i].artist_id = candidate.artist_id
          IN  (pc' = "loop") <=> ((dedup /\ seen) \/ recent)]_vars

\* with k = 2 a new track of the artist emitted two emissions ago was
\* fetched and rejected
RejectedWitness ==
    /\ min_artist_separation = 2
    /\ source_list = << <<Track(1, 1), Track(2, 2), Track(3, 1)>> >>
    /\ source_positions = <<3>>
    /\ Len(emitted) = 2
    /\ pc = "loop"
    /\ consecutive_fails = 1

\* all track references differ pairwise in track_id and in artist_id
AllDistinct ==
    \A i, j \in 1..N :
        \A p \in 1..Len(source_list[i]) : \A q \in 1..Len(source_list[j]) :
            (i # j \/ p # q) =>
                /\ source_list[i][p].track_id # source_list[j][q].track_id
                /\ source_list[i][p].artist_id # source_list[j][q].artist_id

\* the tracks at position r of sources i..N that have such a position
RECURSIVE RoundFrom(_, _)
RoundFrom(r, i) ==
    IF i > N THEN << >>
    ELSE (IF Len(source_list[i]) >= r THEN <<source_list[i][r]>> ELSE << >>)
             \o RoundFrom(r, i + 1)

\* cycling over sources 0..N-1 and skipping exhausted ones, for r rounds
RECURSIVE RoundRobinUpTo(_)
RoundRobinUpTo(r) ==
    IF r = 0 THEN << >> ELSE RoundRobinUpTo(r - 1) \o RoundFrom(r, 1)

\* C19: absent rejections (N >= 1, all references pairwise distinct in
\* track_id and artist_id, max_tracks >= T) the first T calls each return a
\* track_id, in the order of cycling over the sources and skipping the
\* exhausted ones, so that after T calls every reference was emitted once.
RoundRobinOrder ==
    (/\ pc = "idle"
     /\ N >= 1
     /\ max_tracks >= TotalTracks
     /\ calls <= TotalTracks
     /\ AllDistinct)
    => emitted = SubSeq(RoundRobinUpTo(TotalTracks), 1, calls)

\* three distinct tracks in sources of lengths 1 and 2, all emitted
RoundRobinWitness ==
    /\ N = 2
    /\ AllDistinct
    /\ Len(source_list[1]) = 1
    /\ Len(source_list[2]) = 2
    /\ pc = "idle"
    /\ calls = 3
    /\ emitted = <<source_list[1][1], source_list[2][1], source_list[2][2]>>

IdsOf(tracks) == [k \in 1..Len(tracks) |-> tracks[k].track_id]

\* C21: whenever mix_tracks returns, its result has at most max_tracks
\* entries and is exactly the sequence of track_ids returned by next_track
\* up to the first exhausted signal or the max_tracks-th track, whichever
\* comes first.  While the loop runs the list holds every id returned so
\* far and no call has returned the exhausted signal; the loop is left
\* exactly at the first exhausted signal or with the max_tracks-th track;
\* afterwards the result does not change.
MixTracksResult ==
    [][/\ Len(mixed_tracks') <= max_tracks
       /\ ~mix_done' =>
             /\ mixed_tracks' = IdsOf(emitted')
             /\ calls' = Len(emitted')
             /\ Len(mixed_tracks') < max_tracks \/ calls' = 0
       /\ (~mix_done /\ mix_done') =>
             /\ mixed_tracks' = IdsOf(emitted')
             /\ \/ result' = None /\ calls' = Len(emitted') + 1
                \/ result' # None /\ calls' = Len(emitted')
                      /\ Len(mixed_tracks') = max_tracks
       /\ mix_done => (mix_done' /\ mixed_tracks' = mixed_tracks)]_vars

\* with dedup = false mix_tracks stopped at the max_tracks-th track while
\* the Mixer itself went on to return a further track to a later call
MixTracksWitness ==
    /\ ~dedup
    /\ mix_done
    /\ max_tracks = 2
    /\ Len(mixed_tracks) = 2
    /\ mixed_tracks[1] = mixed_tracks[2]
    /\ Len(emitted) = 3

\* C22: every emitted track is the entry at a consumed position of some
\* source, and the positions emitted from any one source are strictly
\* increasing, so the output restricted to one source is a subsequence of
\* that source.
SourceOrderPreserved ==
    /\ Len(emitted_from) = Len(emitted)
    /\ \A k \in 1..Len(emitted) :
          LET c == emitted_from[k][1]
              p == emitted_from[k][2]
          IN  /\ c \in 0..(N - 1)
              /\ 0 <= p
              /\ p < source_positions[c + 1]
              /\ emitted[k] = source_list[c + 1][p + 1]
    /\ \A l \in 2..Len(emitted) : \A k \in 1..(l - 1) :
          emitted_from[k][1] = emitted_from[l][1]
              => emitted_from[k][2] < emitted_from[l][2]

\* the first and the third track of one source were emitted and the second,
\* by the artist of the first, was rejected in between
SourceOrderWitness ==
    /\ N = 2
    /\ Len(source_list[1]) = 3
    /\ emitted_from = << <<0, 0>>, <<0, 2>> >>
====
